---- MODULE Spec2Model ----
(***************************************************************************)
(* The ATM authentication state machine of final-project/state-machine-atm *)
(* (src/atm.rs, src/traits.rs): the pure transition function               *)
(* Atm::next_state over Auth x Action, the hash helper of traits.rs, and   *)
(* one session that applies transitions to the machine's Auth value.       *)
(***************************************************************************)
EXTENDS Integers, Sequences, FiniteSets, TLC

(***************************************************************************)
(* Bounds of the model.                                                    *)
(***************************************************************************)
\* Longest key sequence the keystroke register holds between two Enters.
MaxKeys == 4

(***************************************************************************)
(* u64 values.  TLC's integers are 32 bits wide, so a u64 is kept as four  *)
(* 16-bit limbs, least significant first; all arithmetic wraps at 2^64.    *)
(***************************************************************************)
Limb == 2^16

\* x is a u64: four limbs, each below 2^16.
IsU64(x) ==
    /\ DOMAIN x = 1..4
    /\ \A i \in 1..4 : x[i] \in 0..(Limb - 1)

\* A small non-negative integer (below 2^31) as a u64.
FromInt(n) == <<n % Limb, (n \div Limb) % Limb, 0, 0>>

RECURSIVE XorBits(_, _, _)
XorBits(a, b, n) ==
    IF n = 0 THEN 0
    ELSE ((a + b) % 2) + 2 * XorBits(a \div 2, b \div 2, n - 1)

\* x ^ y
Xor64(x, y) ==
    <<XorBits(x[1], y[1], 16), XorBits(x[2], y[2], 16),
      XorBits(x[3], y[3], 16), XorBits(x[4], y[4], 16)>>

\* x.wrapping_add(y)
Add64(x, y) ==
    LET s1 == x[1] + y[1]
        s2 == x[2] + y[2] + (s1 \div Limb)
        s3 == x[3] + y[3] + (s2 \div Limb)
        s4 == x[4] + y[4] + (s3 \div Limb)
    IN  <<s1 % Limb, s2 % Limb, s3 % Limb, s4 % Limb>>

\* x.rotate_left(n), 0 <= n < 64
Rotl64(x, n) ==
    LET q == n \div 16
        r == n % 16
        hi(i) == x[((i - q) % 4) + 1]
        lo(i) == x[((i - q - 1) % 4) + 1]
        limb(i) == ((hi(i) % (2^(16 - r))) * (2^r)) + (lo(i) \div (2^(16 - r)))
    IN  <<limb(0), limb(1), limb(2), limb(3)>>

(***************************************************************************)
(* DefaultHasher: SipHash-1-3 with the key (0, 0), as DefaultHasher::new() *)
(* builds it.  A hasher absorbs the bytes written to it; finish() returns  *)
(* the digest of all the bytes written, in order.                          *)
(***************************************************************************)
\* v0..v3 of a fresh hasher with k0 = k1 = 0: "somepseudorandomlygeneratedbytes".
SipInit ==
    << <<25973, 28787, 28005, 29551>>,
       <<28525, 28260, 29281, 25711>>,
       <<29281, 28261, 26469, 27769>>,
       <<25971, 31092, 25698, 29797>> >>

SipRound(v) ==
    LET a0 == Add64(v[1], v[2])
        b1 == Xor64(Rotl64(v[2], 13), a0)
        c0 == Rotl64(a0, 32)
        a2 == Add64(v[3], v[4])
        b3 == Xor64(Rotl64(v[4], 16), a2)
        d0 == Add64(c0, b3)
        c3 == Xor64(Rotl64(b3, 21), d0)
        d2 == Add64(a2, b1)
        c1 == Xor64(Rotl64(b1, 17), d2)
        e2 == Rotl64(d2, 32)
    IN  <<d0, c1, e2, c3>>

\* One compression round (the "1" of SipHash-1-3) absorbing the word m.
SipCompress(v, m) ==
    LET w == SipRound(<<v[1], v[2], v[3], Xor64(v[4], m)>>)
    IN  <<Xor64(w[1], m), w[2], w[3], w[4]>>

\* Byte i (1-based) of the message, 0 past its end.
ByteAt(bytes, i) == IF i <= Len(bytes) THEN bytes[i] ELSE 0

\* The little-endian 64-bit word of the 8 bytes after offset off; the last
\* word of a message carries the message length in its top byte.
WordAt(bytes, off, last) ==
    LET limb(j) == ByteAt(bytes, off + 2 * j - 1)
                   + 256 * (IF last /\ j = 4 THEN Len(bytes) % 256
                            ELSE ByteAt(bytes, off + 2 * j))
    IN  <<limb(1), limb(2), limb(3), limb(4)>>

RECURSIVE SipAbsorb(_, _, _)
SipAbsorb(v, bytes, off) ==
    IF off + 8 <= Len(bytes)
    THEN \* w ranges over a singleton, so each word is absorbed exactly once
         CHOOSE r \in { SipAbsorb(w, bytes, off + 8) :
                           w \in {SipCompress(v, WordAt(bytes, off, FALSE))} } : TRUE
    ELSE SipCompress(v, WordAt(bytes, off, TRUE))

\* hasher.finish(): three finalization rounds (the "3") and the fold.
SipFinish(v) ==
    LET f == SipRound(SipRound(SipRound(
                 <<v[1], v[2], Xor64(v[3], FromInt(255)), v[4]>>)))
    IN  Xor64(Xor64(f[1], f[2]), Xor64(f[3], f[4]))

DefaultHasher(bytes) == SipFinish(SipAbsorb(SipInit, bytes, 0))

(***************************************************************************)
(* Hash of a key and of a Vec of keys.                                     *)
(***************************************************************************)
\* The digit keys of the keypad and all of its keys.
Digits == {"One", "Two", "Three", "Four"}

Key == Digits \cup {"Enter"}

\* impl Hash for a key: the key's name hashed as a str, that is its UTF-8
\* bytes followed by the byte 0xff.
KeyHashBytes(k) ==
    CASE k = "One"   -> <<79, 110, 101, 255>>
      [] k = "Two"   -> <<84, 119, 111, 255>>
      [] k = "Three" -> <<84, 104, 114, 101, 101, 255>>
      [] k = "Four"  -> <<70, 111, 117, 114, 255>>

RECURSIVE HashSlice(_)
HashSlice(keys) ==
    IF keys = <<>> THEN <<>>
    ELSE KeyHashBytes(Head(keys)) \o HashSlice(Tail(keys))

\* Vec<T>::hash: the length as a usize (8 bytes, little endian), then each
\* element in order.
VecHashBytes(keys) ==
    <<Len(keys) % 256, (Len(keys) \div 256) % 256, 0, 0, 0, 0, 0, 0>>
    \o HashSlice(keys)

\* pub fn hash<T: Hash>(t: &T) -> u64, for t a Vec of keys.
hash(keys) == DefaultHasher(VecHashBytes(keys))

(***************************************************************************)
(* enum Action and enum Auth.                                              *)
(***************************************************************************)
SwipeCard(pin_hash) == [tag |-> "SwipeCard", pin_hash |-> pin_hash]

PressKey(key) == [tag |-> "PressKey", key |-> key]

Waiting == [tag |-> "Waiting"]

Authenticating(pin_hash) == [tag |-> "Authenticating", pin_hash |-> pin_hash]

Authenticated == [tag |-> "Authenticated"]

\* Default for Auth returning the last variant instead of the first.
AuthDefault_LastVariant == Authenticated

\* impl Default for Auth
AuthDefault == Waiting

\* s is a value of type Auth: one of the three variants, the payload of
\* Authenticating any u64.
IsAuth(s) ==
    \/ s = Waiting
    \/ s = Authenticated
    \/ /\ DOMAIN s = {"tag", "pin_hash"}
       /\ s.tag = "Authenticating"
       /\ IsU64(s.pin_hash)

(***************************************************************************)
(* Atm::next_state.  The match arms are tried in order, first match wins.  *)
(***************************************************************************)
\* let expected_pin_hash = 1234;
expected_pin_hash == 1234

\* next_state with the swiped hash dropped: a swipe in Waiting stores the
\* placeholder constant instead of the card's hash.
next_state_SwipeStoresConstant(starting_state, t) ==
    IF starting_state.tag = "Waiting" /\ t.tag = "SwipeCard"
    THEN Authenticating(FromInt(expected_pin_hash))
    ELSE IF starting_state.tag = "Authenticating" /\ t.tag = "PressKey"
            /\ t.key = "Enter"
    THEN IF starting_state.pin_hash = FromInt(expected_pin_hash)
         THEN Authenticated
         ELSE Waiting
    ELSE IF starting_state.tag = "Authenticating" /\ t.tag = "PressKey"
    THEN Authenticating(starting_state.pin_hash)
    ELSE IF starting_state.tag = "Authenticated" /\ t.tag = "PressKey"
    THEN Authenticated
    ELSE Waiting

\* next_state with the Enter arm written as PressKey(_): every key pressed
\* while authenticating submits the pin.
next_state_AnyKeySubmits(starting_state, t) ==
    IF starting_state.tag = "Waiting" /\ t.tag = "SwipeCard"
    THEN Authenticating(t.pin_hash)
    ELSE IF starting_state.tag = "Authenticating" /\ t.tag = "PressKey"
    THEN IF starting_state.pin_hash = FromInt(expected_pin_hash)
         THEN Authenticated
         ELSE Waiting
    ELSE IF starting_state.tag = "Authenticated" /\ t.tag = "PressKey"
    THEN Authenticated
    ELSE Waiting

\* next_state with the last key arm written as (_, PressKey(_)): a key
\* pressed in Waiting falls into the Authenticated arm.
next_state_KeyArmAnyState(starting_state, t) ==
    IF starting_state.tag = "Waiting" /\ t.tag = "SwipeCard"
    THEN Authenticating(t.pin_hash)
    ELSE IF starting_state.tag = "Authenticating" /\ t.tag = "PressKey"
            /\ t.key = "Enter"
    THEN IF starting_state.pin_hash = FromInt(expected_pin_hash)
         THEN Authenticated
         ELSE Waiting
    ELSE IF starting_state.tag = "Authenticating" /\ t.tag = "PressKey"
    THEN Authenticating(starting_state.pin_hash)
    ELSE IF t.tag = "PressKey"
    THEN Authenticated
    ELSE Waiting

\* next_state without the (Authenticated, PressKey(_)) arm: a key pressed
\* in Authenticated falls through to the default.
next_state_NoAuthenticatedArm(starting_state, t) ==
    IF starting_state.tag = "Waiting" /\ t.tag = "SwipeCard"
    THEN Authenticating(t.pin_hash)
    ELSE IF starting_state.tag = "Authenticating" /\ t.tag = "PressKey"
            /\ t.key = "Enter"
    THEN IF starting_state.pin_hash = FromInt(expected_pin_hash)
         THEN Authenticated
         ELSE Waiting
    ELSE IF starting_state.tag = "Authenticating" /\ t.tag = "PressKey"
    THEN Authenticating(starting_state.pin_hash)
    ELSE Waiting

\* next_state with the default arm written as unreachable!(): the pairs no
\* arm lists end in a panic, which is no Auth value.
next_state_DefaultPanics(starting_state, t) ==
    IF starting_state.tag = "Waiting" /\ t.tag = "SwipeCard"
    THEN Authenticating(t.pin_hash)
    ELSE IF starting_state.tag = "Authenticating" /\ t.tag = "PressKey"
            /\ t.key = "Enter"
    THEN IF starting_state.pin_hash = FromInt(expected_pin_hash)
         THEN Authenticated
         ELSE Waiting
    ELSE IF starting_state.tag = "Authenticating" /\ t.tag = "PressKey"
    THEN Authenticating(starting_state.pin_hash)
    ELSE IF starting_state.tag = "Authenticated" /\ t.tag = "PressKey"
    THEN Authenticated
    ELSE [tag |-> "Panic"]

\* next_state with an arm for a swipe part-way through pin entry, which
\* keeps authenticating with the newly swiped hash.
next_state_ReSwipeArm(starting_state, t) ==
    IF starting_state.tag = "Waiting" /\ t.tag = "SwipeCard"
    THEN Authenticating(t.pin_hash)
    ELSE IF starting_state.tag = "Authenticating" /\ t.tag = "SwipeCard"
    THEN Authenticating(t.pin_hash)
    ELSE IF starting_state.tag = "Authenticating" /\ t.tag = "PressKey"
            /\ t.key = "Enter"
    THEN IF starting_state.pin_hash = FromInt(expected_pin_hash)
         THEN Authenticated
         ELSE Waiting
    ELSE IF starting_state.tag = "Authenticating" /\ t.tag = "PressKey"
    THEN Authenticating(starting_state.pin_hash)
    ELSE IF starting_state.tag = "Authenticated" /\ t.tag = "PressKey"
    THEN Authenticated
    ELSE Waiting

\* next_state with the digit arm of Authenticating returning the local
\* expected_pin_hash instead of the hash matched from the state.
next_state_DigitStoresConstant(starting_state, t) ==
    IF starting_state.tag = "Waiting" /\ t.tag = "SwipeCard"
    THEN Authenticating(t.pin_hash)
    ELSE IF starting_state.tag = "Authenticating" /\ t.tag = "PressKey"
            /\ t.key = "Enter"
    THEN IF starting_state.pin_hash = FromInt(expected_pin_hash)
         THEN Authenticated
         ELSE Waiting
    ELSE IF starting_state.tag = "Authenticating" /\ t.tag = "PressKey"
    THEN Authenticating(FromInt(expected_pin_hash))
    ELSE IF starting_state.tag = "Authenticated" /\ t.tag = "PressKey"
    THEN Authenticated
    ELSE Waiting

\* next_state with the last key arm written as (Auth::Authenticated, _):
\* nothing leaves Authenticated.
next_state_AuthenticatedAbsorbs(starting_state, t) ==
    IF starting_state.tag = "Waiting" /\ t.tag = "SwipeCard"
    THEN Authenticating(t.pin_hash)
    ELSE IF starting_state.tag = "Authenticating" /\ t.tag = "PressKey"
            /\ t.key = "Enter"
    THEN IF starting_state.pin_hash = FromInt(expected_pin_hash)
         THEN Authenticated
         ELSE Waiting
    ELSE IF starting_state.tag = "Authenticating" /\ t.tag = "PressKey"
    THEN Authenticating(starting_state.pin_hash)
    ELSE IF starting_state.tag = "Authenticated"
    THEN Authenticated
    ELSE Waiting

\* next_state with the pin comparison left out: Enter in Authenticating
\* always authenticates.
next_state_EnterAuthenticates(starting_state, t) ==
    IF starting_state.tag = "Waiting" /\ t.tag = "SwipeCard"
    THEN Authenticating(t.pin_hash)
    ELSE IF starting_state.tag = "Authenticating" /\ t.tag = "PressKey"
            /\ t.key = "Enter"
    THEN Authenticated
    ELSE IF starting_state.tag = "Authenticating" /\ t.tag = "PressKey"
    THEN Authenticating(starting_state.pin_hash)
    ELSE IF starting_state.tag = "Authenticated" /\ t.tag = "PressKey"
    THEN Authenticated
    ELSE Waiting

\* next_state with the pin checked when the card is swiped: a swipe of the
\* expected hash in Waiting authenticates at once.
next_state_SwipeChecksPin(starting_state, t) ==
    IF starting_state.tag = "Waiting" /\ t.tag = "SwipeCard"
    THEN IF t.pin_hash = FromInt(expected_pin_hash)
         THEN Authenticated
         ELSE Authenticating(t.pin_hash)
    ELSE IF starting_state.tag = "Authenticating" /\ t.tag = "PressKey"
            /\ t.key = "Enter"
    THEN IF starting_state.pin_hash = FromInt(expected_pin_hash)
         THEN Authenticated
         ELSE Waiting
    ELSE IF starting_state.tag = "Authenticating" /\ t.tag = "PressKey"
    THEN Authenticating(starting_state.pin_hash)
    ELSE IF starting_state.tag = "Authenticated" /\ t.tag = "PressKey"
    THEN Authenticated
    ELSE Waiting

\* next_state without the digit arm of Authenticating: a digit pressed
\* while authenticating falls through to the default.
next_state_NoDigitArm(starting_state, t) ==
    IF starting_state.tag = "Waiting" /\ t.tag = "SwipeCard"
    THEN Authenticating(t.pin_hash)
    ELSE IF starting_state.tag = "Authenticating" /\ t.tag = "PressKey"
            /\ t.key = "Enter"
    THEN IF starting_state.pin_hash = FromInt(expected_pin_hash)
         THEN Authenticated
         ELSE Waiting
    ELSE IF starting_state.tag = "Authenticated" /\ t.tag = "PressKey"
    THEN Authenticated
    ELSE Waiting

next_state(starting_state, t) ==
    IF starting_state.tag = "Waiting" /\ t.tag = "SwipeCard"
    THEN Authenticating(t.pin_hash)
    ELSE IF starting_state.tag = "Authenticating" /\ t.tag = "PressKey"
            /\ t.key = "Enter"
    THEN IF starting_state.pin_hash = FromInt(expected_pin_hash)
         THEN Authenticated
         ELSE Waiting
    ELSE IF starting_state.tag = "Authenticating" /\ t.tag = "PressKey"
    THEN Authenticating(starting_state.pin_hash)
    ELSE IF starting_state.tag = "Authenticated" /\ t.tag = "PressKey"
    THEN Authenticated
    ELSE Waiting

(***************************************************************************)
(* One session.  The machine's Auth value starts at its default; each      *)
(* step applies one Action to it through next_state.  The keystroke        *)
(* register holds the keys pressed since the last Enter.                   *)
(***************************************************************************)
VARIABLES
    state,               \* Atm.expected_pin_hash: the authentication status
    keystroke_register,  \* Atm.keystroke_register
    start,               \* the starting_state argument of the last call
    last,                \* the t argument of the last call
    entered,             \* the keys the last call submitted, when it was Enter
    run_start,           \* the state before the current run of digit keys
    run_len,             \* the number of digit keys in that run
    swiped,              \* whether a card has been swiped in this session
    last_swipe,          \* the hash of the most recent SwipeCard, <<>> if none
    auth_steps,          \* the authentication steps taken since the last swipe
    shadow,              \* the state of the same session with the digit keys
                         \* pressed outside Waiting left out
    first_change         \* the kind of the first transition that changed the
                         \* state, "None" while the state has not changed

vars ==
    <<state, keystroke_register, start, last, entered, run_start, run_len,
      swiped, last_swipe, auth_steps, shadow, first_change>>

\* The pin the tests key in: vec![Key::One, Key::Two, Key::Three, Key::Four].
TestPin == <<"One", "Two", "Three", "Four">>

\* The pins of the cards swiped in the model.
Pins == {TestPin, <<"Four", "Three", "Two", "One">>}

\* Pin hashes given as numbers: the constant the tests swipe (1234), its
\* neighbour and the largest u64.
NumberHashes ==
    {FromInt(expected_pin_hash), FromInt(expected_pin_hash + 1),
     <<Limb - 1, Limb - 1, Limb - 1, Limb - 1>>}

\* The pin hashes the swiped cards carry.
CardHashes == {hash(p) : p \in Pins} \cup NumberHashes

\* auth_steps is "swiped" once a SwipeCard has been applied in Waiting,
\* "entered" once a PressKey(Enter) has then been applied in Authenticating,
\* and "none" again after a SwipeCard applied in any other state.

\* No call has been made yet.
NoAction == [tag |-> "None"]

Init ==
    /\ state = AuthDefault
    /\ keystroke_register = <<>>
    /\ start = AuthDefault
    /\ last = NoAction
    /\ entered = <<>>
    /\ run_start = AuthDefault
    /\ run_len = 0
    /\ swiped = FALSE
    /\ last_swipe = <<>>
    /\ auth_steps = "none"
    /\ shadow = AuthDefault
    /\ first_change = "None"

\* A card is swiped: the Action SwipeCard(h) is applied.
Swipe(h) ==
    /\ state' = next_state(state, SwipeCard(h))
    /\ start' = state
    /\ last' = SwipeCard(h)
    /\ entered' = <<>>
    /\ run_start' = state'
    /\ run_len' = 0
    /\ swiped' = TRUE
    /\ last_swipe' = h
    /\ auth_steps' = IF state = Waiting THEN "swiped" ELSE "none"
    /\ shadow' = next_state(shadow, SwipeCard(h))
    /\ first_change' = IF first_change = "None" /\ state' # state
                        THEN "SwipeCard"
                        ELSE first_change
    /\ UNCHANGED keystroke_register

\* A digit key is pressed: PressKey(k) is applied and k joins the register.
PressDigit(k) ==
    /\ Len(keystroke_register) < MaxKeys
    /\ state' = next_state(state, PressKey(k))
    /\ start' = state
    /\ last' = PressKey(k)
    /\ keystroke_register' = Append(keystroke_register, k)
    /\ entered' = <<>>
    /\ run_start' = IF run_len = 0 THEN state ELSE run_start
    /\ run_len' = run_len + 1
    /\ shadow' = IF state = Waiting
                  THEN next_state(shadow, PressKey(k))
                  ELSE shadow
    /\ first_change' = IF first_change = "None" /\ state' # state
                        THEN "PressKey"
                        ELSE first_change
    /\ UNCHANGED <<swiped, last_swipe, auth_steps>>

\* Enter is pressed: PressKey(Enter) is applied, submitting the register,
\* which starts empty again.
PressEnter ==
    /\ state' = next_state(state, PressKey("Enter"))
    /\ start' = state
    /\ last' = PressKey("Enter")
    /\ entered' = keystroke_register
    /\ keystroke_register' = <<>>
    /\ run_start' = state'
    /\ run_len' = 0
    /\ auth_steps' = IF auth_steps = "swiped" /\ state.tag = "Authenticating"
                      THEN "entered"
                      ELSE auth_steps
    /\ shadow' = next_state(shadow, PressKey("Enter"))
    /\ first_change' = IF first_change = "None" /\ state' # state
                        THEN "PressKey"
                        ELSE first_change
    /\ UNCHANGED <<swiped, last_swipe>>

Next ==
    \/ \E h \in CardHashes : Swipe(h)
    \/ \E k \in Digits : PressDigit(k)
    \/ PressEnter

Spec == Init /\ [][Next]_vars

(***************************************************************************)
(* Properties.  Each one reads the last call made: its arguments start and *)
(* last, and its result state.                                             *)
(***************************************************************************)
\* The last call pressed Enter while authenticating.
EnterInAuthenticating ==
    start.tag = "Authenticating" /\ last = PressKey("Enter")

\* The last call pressed a key other than Enter.
DigitPressed == last.tag = "PressKey" /\ last.key # "Enter"

\* C1: with h the hash of the pin [One, Two, Three, Four], pressing Enter in
\* Authenticating(h) yields Authenticated; and in general pressing Enter in
\* Authenticating(h) yields Authenticated whenever the hash of the keys
\* submitted equals h.
C1_EnterCorrectPin ==
    /\ (EnterInAuthenticating /\ start.pin_hash = hash(TestPin))
           => state = Authenticated
    /\ (EnterInAuthenticating /\ hash(entered) = start.pin_hash)
           => state = Authenticated

\* C2: pressing Enter in Authenticating(h) when the hash of the keys
\* submitted differs from h yields Waiting, never Authenticated.
C2_EnterWrongPin ==
    (EnterInAuthenticating /\ hash(entered) # start.pin_hash)
        => state = Waiting

\* C3: pressing Enter in Authenticated yields Waiting.
C3_EnterInAuthenticatedResets ==
    (start = Authenticated /\ last = PressKey("Enter")) => state = Waiting

\* C4: swiping a card in Authenticating(h) yields Authenticating(h2), h2 the
\* hash of the card swiped.
C4_ReSwipeKeepsAuthenticating ==
    (start.tag = "Authenticating" /\ last.tag = "SwipeCard")
        => state = Authenticating(last.pin_hash)

\* C5: swiping a card with hash h in Waiting yields Authenticating(h).
C5_SwipeInWaiting ==
    (start = Waiting /\ last.tag = "SwipeCard")
        => state = Authenticating(last.pin_hash)

C5_Witness ==
    /\ start = Waiting
    /\ last.tag = "SwipeCard"
    /\ last.pin_hash \notin NumberHashes
    /\ state = Authenticating(last.pin_hash)

\* C6: pressing a key other than Enter in Authenticating(h) yields
\* Authenticating(h); so after any run of such keys that began in
\* Authenticating(h) the state is still Authenticating(h).
C6_DigitKeepsAuthenticating ==
    /\ (start.tag = "Authenticating" /\ DigitPressed) => state = start
    /\ (run_len > 0 /\ run_start.tag = "Authenticating") => state = run_start

C6_Witness ==
    /\ run_len >= 3
    /\ run_start = Authenticating(FromInt(expected_pin_hash))
    /\ DigitPressed
    /\ state = run_start

\* C7: pressing any key, Enter included, in Waiting yields Waiting; so as
\* long as no card has been swiped the state is Waiting.
C7_KeyInWaiting ==
    /\ (start = Waiting /\ last.tag = "PressKey") => state = Waiting
    /\ ~swiped => state = Waiting

C7_Witness ==
    /\ ~swiped
    /\ start = Waiting
    /\ last = PressKey("Enter")
    /\ Len(entered) >= 2
    /\ state = Waiting

\* C8: pressing a key other than Enter in Authenticated yields Authenticated.
C8_DigitKeepsAuthenticated ==
    (start = Authenticated /\ DigitPressed) => state = Authenticated

C8_Witness ==
    /\ start = Authenticated
    /\ last = PressKey("Four")
    /\ state = Authenticated

\* Every key press and the swipes of the cards with a number for a hash.
\* (A swipe of any other card is a step of the session from every state, so
\* its result is one of the states the property reads.)
Transitions ==
    {SwipeCard(h) : h \in NumberHashes} \cup {PressKey(k) : k \in Key}

\* C9: next_state is total with no error outcome: the state reached after
\* any sequence of transitions is an Auth value, and every transition
\* applied to it yields an Auth value again.
C9_Total ==
    /\ IsAuth(state)
    /\ \A tr \in Transitions : IsAuth(next_state(state, tr))

C9_Witness ==
    /\ start = Authenticated
    /\ last.tag = "SwipeCard"
    /\ IsAuth(state)

\* The four rows of the transition table that name a target other than the
\* default: a swipe in Waiting, Enter and any other key in Authenticating
\* (one disjunct for both), and a key in Authenticated.
ListedRow(s, tr) ==
    \/ s.tag = "Waiting" /\ tr.tag = "SwipeCard"
    \/ s.tag = "Authenticating" /\ tr.tag = "PressKey"
    \/ s.tag = "Authenticated" /\ tr.tag = "PressKey"

C11_CarriesLastSwipe ==
    /\ state.tag = "Authenticating" => state.pin_hash = last_swipe
    /\ (start.tag = "Authenticating" /\ state.tag = "Authenticating"
        /\ last.tag # "SwipeCard")
           => state.pin_hash = start.pin_hash

C11_Witness ==
    /\ state.tag = "Authenticating"
    /\ state.pin_hash = last_swipe
    /\ last_swipe \notin NumberHashes
    /\ start = state
    /\ run_len >= 2

\* C12: the session can be reset at any point and has no terminal state:
\* from every reachable state some transition yields Waiting, and from
\* Waiting every Authenticating(h) is one transition away and Authenticated
\* two transitions away.
C12_Resettable ==
    /\ \E tr \in Transitions : next_state(state, tr) = Waiting
    /\ state = Waiting =>
           /\ \A h \in NumberHashes :
                  next_state(state, SwipeCard(h)) = Authenticating(h)
           /\ \E t1, t2 \in Transitions :
                  next_state(next_state(state, t1), t2) = Authenticated

C12_Witness ==
    /\ start = Authenticated
    /\ last = PressKey("Enter")
    /\ state = Authenticated
    /\ next_state(state, SwipeCard(last_swipe)) = Waiting

C18_StartsWaiting ==
    /\ last = NoAction => state = Waiting
    /\ first_change \in {"None", "SwipeCard"}
    /\ first_change = "None" => state = Waiting

\* A swipe in Waiting with keys already in the register, in a session whose
\* first change of state was a swipe.
C18_Witness ==
    /\ first_change = "SwipeCard"
    /\ start = Waiting
    /\ last.tag = "SwipeCard"
    /\ state.tag = "Authenticating"
    /\ keystroke_register # <<>>
    /\ auth_steps = "swiped"

====
